---------------------------- MODULE Spec2Model ----------------------------
(***************************************************************************)
(* A model of the Collection engine of ipjdb (src/src/lib.rs, lock.rs).    *)
(*                                                                         *)
(* A collection is a directory; a document is a file named by a 16-byte    *)
(* identifier whose bytes are the JSON encoding of the payload.  Threads   *)
(* call the collection's operations concurrently; every operation takes    *)
(* the directory's advisory lock (flock on a handle of its own, which      *)
(* blocks the thread until it is granted), does its file accesses one      *)
(* system call at a time, and releases the lock when it returns            *)
(* (explicitly, or by Drop on an error return).                            *)
(*                                                                         *)
(* Payloads are the numbers 0..MaxData (serde_json writes them as decimal  *)
(* digits), plus one value whose Serialize implementation fails.           *)
(***************************************************************************)
EXTENDS Integers, Sequences, FiniteSets, TLC

\* ---------------------------------------------------------------- bounds

\* Payloads are 0..MaxData.
MaxData == 1

\* gen_id draws its identifiers among the first NumIds of the identifier space.
NumIds == 2

\* The threads that call the collection.
Procs == {"t1", "t2"}

\* ------------------------------------------------------------ identifiers

ID_SIZE == 16

\* b"0123456789abcdef"
chars == <<48, 49, 50, 51, 52, 53, 54, 55, 56, 57, 97, 98, 99, 100, 101, 102>>

\* The identifier "000000000000000c", c the i-th symbol of chars: the draws
\* of gen_id whose first fifteen symbols are chars[1].
PoolId(i) == [k \in 1..ID_SIZE |-> IF k < ID_SIZE THEN chars[1] ELSE chars[i]]

IdPool == {PoolId(i) : i \in 1..NumIds}

\* A file of the directory that is no document: its name is "x".
StrayName == <<120>>

Names == IdPool \cup {StrayName}

\* ---------------------------------------------------------------- results

Ok(v) == [ok |-> TRUE, val |-> v]

Err(e) == [ok |-> FALSE, err |-> e]

Unit == "unit"

\* A fault for C20: a text is an identifier when it is 16 symbols of chars.
FromStr_Hex(s) ==
  IF Len(s) = ID_SIZE /\ \A k \in 1..Len(s) : \E i \in 1..Len(chars) : s[k] = chars[i]
    THEN Ok(s)
    ELSE Err("InvalidId")

\* A fault for C12: a text of any length is taken for an identifier.
FromStr_Unchecked(s) == Ok(s)

\* Id::from_str: the bytes of the text, when there are ID_SIZE of them.
FromStr(s) == IF Len(s) = ID_SIZE THEN Ok(s) ELSE Err("InvalidId")

\* std::str::from_utf8 on the bytes met here, the encodings of code points
\* below U+0800: a byte is a one-byte code point, or the first byte of a
\* two-byte one before its continuation byte, or that continuation byte.
IsUtf8(b) ==
  \A k \in 1..Len(b) :
    \/ b[k] < 128
    \/ b[k] \in 194..223 /\ k < Len(b) /\ b[k + 1] \in 128..191
    \/ b[k] \in 128..191 /\ k > 1 /\ b[k - 1] \in 194..223

\* Id::to_str: the bytes as text, when they are UTF-8.
ToStr(id) == IF IsUtf8(id) THEN Ok(id) ELSE Err("InvalidId")

\* Collection::item_path: root.join(id.to_str()?); the path is the file name.
ItemPath(id) == ToStr(id)

Item(id, data) == [id |-> id, data |-> data]

\* --------------------------------------------------------------- payloads

\* The payload whose Serialize implementation returns an error at once.
Unencodable == 0 - 1

Data == 0..MaxData

Values == Data \cup {Unencodable}

\* DbError::JsonError, of serde_json's error when it writes and when it reads.
EncodeError == "JsonError(encode)"

DecodeError == "JsonError(decode)"

\* serde_json::to_writer on a number: its decimal digit.
Encode(d) == IF d \in Data THEN Ok(<<48 + d>>) ELSE Err(EncodeError)

\* serde_json::from_reader into a number: one decimal digit in range.
Decode(b) ==
  IF Len(b) = 1 /\ b[1] - 48 \in Data THEN Ok(b[1] - 48) ELSE Err(DecodeError)

\* A file that was created or truncated and not written yet.
Empty == <<>>

\* The bytes of a file that holds no JSON value: "{".
Garbage == <<123>>

\* ------------------------------------------------------------- directory

Exists(fs, n) == n \in DOMAIN fs

\* File::create(path): the file is created or truncated.
Create(fs, n) == [m \in DOMAIN fs \cup {n} |-> IF m = n THEN Empty ELSE fs[m]]

\* A fault for C2: the BufWriter's bytes never reach the file.
WriteBytes_Lost(fs, n, b) == fs

\* The BufWriter's flush on the file opened at n: the bytes of the file.
WriteBytes(fs, n, b) == [m \in DOMAIN fs \cup {n} |-> IF m = n THEN b ELSE fs[m]]

\* A fault for C5: the file is left in the directory.
RemoveFile_Kept(fs, n) == fs

\* fs::remove_file
RemoveFile(fs, n) == [m \in DOMAIN fs \ {n} |-> fs[m]]

NoFiles == [m \in {} |-> Empty]

\* A fault for C16: a file that is missing or does not decode reads as 0.
ReadFile_OrDefault(fs, n) ==
  IF Exists(fs, n) /\ Decode(fs[n]).ok THEN Decode(fs[n]) ELSE Ok(0)

\* File::open(path) then serde_json::from_reader: the payload of file n.
ReadFile(fs, n) == IF Exists(fs, n) THEN Decode(fs[n]) ELSE Err("NotFound")

\* ------------------------------------------------- predicates and mutators

Preds == {"all", "none", "zero"}

Holds(f, item) ==
  CASE f = "all" -> TRUE
    [] f = "none" -> FALSE
    [] OTHER -> item.data = 0

Muts == {"inc", "poison", "rename"}

\* The caller's mutator on the decoded item: it may change both fields.
Apply(u, item) ==
  CASE u = "inc" -> Item(item.id, (item.data + 1) % (MaxData + 1))
    [] u = "poison" -> Item(item.id, Unencodable)
    [] OTHER -> Item(PoolId(1), item.data)

\* ------------------------------------------------------------------ state

VARIABLES
  files,   \* the directory: file name |-> bytes
  lock,    \* thread |-> the mode of the FileLock it holds
  pc,      \* thread |-> where it is in the operation it is running
  call,    \* thread |-> the operation it is running and its arguments
  loc,     \* thread |-> the operation's local variables
  snap     \* history: thread |-> the directory when it took its lock

vars == <<files, lock, pc, call, loc, snap>>

NoCall == [op |-> "none", id |-> PoolId(1), data |-> 0, f |-> "all", u |-> "inc"]

\* The locals: the identifier (of gen_id, of the entry), the path, the file
\* opened for writing, the item, the entries read_dir has yet to give, the
\* result vector, the error on its way out.
NoLoc ==
  [id |-> PoolId(1), path |-> PoolId(1), file |-> PoolId(1),
   item |-> Item(PoolId(1), 0), todo |-> {}, out |-> <<>>, err |-> "none"]

\* The directories a collection is opened on: with no document yet, and
\* with or without a stray file.
InitDirs == {NoFiles, [m \in {StrayName} |-> Garbage]}

Init ==
  /\ files \in InitDirs
  /\ lock = [p \in Procs |-> "none"]
  /\ pc = [p \in Procs |-> "idle"]
  /\ call = [p \in Procs |-> NoCall]
  /\ loc = [p \in Procs |-> NoLoc]
  /\ snap = [p \in Procs |-> NoFiles]

\* ------------------------------------------------------------------- lock

\* A fault for C1: the exclusive lock is granted beside shared holders.
CanLockExclusive_BesideShared(p) == \A q \in Procs \ {p} : lock[q] # "exclusive"

\* A fault for C9: exclusive() does not wait for the lock.
CanLockExclusive_NoWait(p) == TRUE

\* flock(LOCK_EX) is granted when no other handle holds the lock.
CanLockExclusive(p) == \A q \in Procs \ {p} : lock[q] = "none"

\* A fault for C18: the shared lock is granted to one holder at a time.
CanLockShared_Alone(p) == \A q \in Procs \ {p} : lock[q] = "none"

\* A fault for C8: shared() does not wait for the exclusive holder.
CanLockShared_NoWait(p) == TRUE

\* flock(LOCK_SH) is granted when no other handle holds it exclusively.
CanLockShared(p) == \A q \in Procs \ {p} : lock[q] # "exclusive"

\* FileLock::exclusive: the thread is blocked until the lock is granted.
LockExclusive(p) ==
  /\ CanLockExclusive(p)
  /\ lock' = [lock EXCEPT ![p] = "exclusive"]
  /\ snap' = [snap EXCEPT ![p] = files]

\* FileLock::shared: the thread is blocked until the lock is granted.
LockShared(p) ==
  /\ CanLockShared(p)
  /\ lock' = [lock EXCEPT ![p] = "shared"]
  /\ snap' = [snap EXCEPT ![p] = files]

\* FileLock::unlock, on the way out of the operation
Unlock(p) ==
  /\ lock' = [lock EXCEPT ![p] = "none"]
  /\ snap' = [snap EXCEPT ![p] = NoFiles]

\* An operation's `?` on an error: it leaves for its return, the lock held.
Raise(p, e) ==
  /\ pc' = [pc EXCEPT ![p] = "fail"]
  /\ loc' = [loc EXCEPT ![p].err = e]

\* A thread calls operation c, which goes on to label l with its lock.
Begin(p, c, l) ==
  /\ pc[p] = "idle"
  /\ pc' = [pc EXCEPT ![p] = l]
  /\ call' = [call EXCEPT ![p] = c]

\* The operation returns to its caller, its arguments and locals gone.
Return(p) ==
  /\ pc' = [pc EXCEPT ![p] = "idle"]
  /\ call' = [call EXCEPT ![p] = NoCall]
  /\ loc' = [loc EXCEPT ![p] = NoLoc]

\* ---------------------------------------------------------------- get_one

\* get_one(id) is called and takes the shared lock.
GetOne(p) ==
  /\ \E id \in IdPool :
       Begin(p, [NoCall EXCEPT !.op = "get", !.id = id], "get_read")
  /\ LockShared(p)
  /\ UNCHANGED <<files, loc>>

\* What get_one(id) gives on directory fs: the path, the file opened and
\* decoded, the item made of id and the payload.
GetOneResult(fs, id) ==
  LET path == ItemPath(id)
      val == IF path.ok THEN ReadFile(fs, path.val) ELSE path
  IN IF val.ok THEN Ok(Item(id, val.val)) ELSE val

GetOneRead(p) ==
  /\ pc[p] = "get_read"
  /\ LET r == GetOneResult(files, call[p].id)
     IN IF r.ok
          THEN /\ pc' = [pc EXCEPT ![p] = "get_unlock"]
               /\ loc' = [loc EXCEPT ![p].item = r.val]
          ELSE Raise(p, r.err)
  /\ UNCHANGED <<files, lock, call, snap>>

GetOneUnlock(p) ==
  /\ pc[p] = "get_unlock"
  /\ Unlock(p)
  /\ Return(p)
  /\ files' = files

\* ------------------------------------------------------------- insert_one

\* insert_one(data) is called and takes the exclusive lock.
InsertOne(p) ==
  /\ \E d \in Values :
       Begin(p, [NoCall EXCEPT !.op = "ins", !.data = d], "ins_gen")
  /\ LockExclusive(p)
  /\ UNCHANGED <<files, loc>>

\* A fault for C19: gen_id takes every candidate to be in use.
IdFree_Never(fs, id) == FALSE

\* A fault for C6: gen_id returns its first candidate.
IdFree_Unchecked(fs, id) == TRUE

\* gen_id's test of a candidate: it is returned when its path does not exist.
IdFree(fs, id) == ~Exists(fs, ItemPath(id).val)

\* One turn of gen_id's loop.
GenId(p) ==
  /\ pc[p] = "ins_gen"
  /\ \E id \in IdPool :
       /\ loc' = [loc EXCEPT ![p].id = id]
       /\ pc' = [pc EXCEPT ![p] = IF IdFree(files, id) THEN "ins_create" ELSE "ins_gen"]
  /\ UNCHANGED <<files, lock, call, snap>>

InsertOneCreate(p) ==
  /\ pc[p] = "ins_create"
  /\ LET path == ItemPath(loc[p].id)
     IN IF path.ok
          THEN /\ files' = Create(files, path.val)
               /\ pc' = [pc EXCEPT ![p] = "ins_write"]
               /\ loc' = [loc EXCEPT ![p].path = path.val, ![p].file = path.val]
          ELSE Raise(p, path.err) /\ files' = files
  /\ UNCHANGED <<lock, call, snap>>

InsertOneWrite(p) ==
  /\ pc[p] = "ins_write"
  /\ LET bytes == Encode(call[p].data)
     IN IF bytes.ok
          THEN /\ files' = WriteBytes(files, loc[p].file, bytes.val)
               /\ pc' = [pc EXCEPT ![p] = "ins_unlock"]
               /\ loc' = loc
          ELSE Raise(p, bytes.err) /\ files' = files
  /\ UNCHANGED <<lock, call, snap>>

InsertOneUnlock(p) ==
  /\ pc[p] = "ins_unlock"
  /\ Unlock(p)
  /\ Return(p)
  /\ files' = files

\* ------------------------------------------------------------- delete_one

\* delete_one(id) is called and takes the exclusive lock.
DeleteOne(p) ==
  /\ \E id \in IdPool :
       Begin(p, [NoCall EXCEPT !.op = "del", !.id = id], "del_remove")
  /\ LockExclusive(p)
  /\ UNCHANGED <<files, loc>>

DeleteOneRemove(p) ==
  /\ pc[p] = "del_remove"
  /\ LET path == ItemPath(call[p].id)
     IN IF path.ok /\ Exists(files, path.val)
          THEN /\ files' = RemoveFile(files, path.val)
               /\ pc' = [pc EXCEPT ![p] = "del_unlock"]
               /\ loc' = [loc EXCEPT ![p].path = path.val]
          ELSE /\ Raise(p, IF path.ok THEN "NotFound" ELSE path.err)
               /\ files' = files
  /\ UNCHANGED <<lock, call, snap>>

DeleteOneUnlock(p) ==
  /\ pc[p] = "del_unlock"
  /\ Unlock(p)
  /\ Return(p)
  /\ files' = files

\* ------------------------------------------------------------ replace_one

\* replace_one(item) is called and takes the exclusive lock.
ReplaceOne(p) ==
  /\ \E id \in IdPool, d \in Values :
       Begin(p, [NoCall EXCEPT !.op = "rep", !.id = id, !.data = d], "rep_create")
  /\ LockExclusive(p)
  /\ UNCHANGED <<files, loc>>

\* A fault for C17: replace_one opens only a file that exists.
ReplaceOneCreate_Strict(p) ==
  /\ pc[p] = "rep_create"
  /\ LET path == ItemPath(call[p].id)
     IN IF path.ok /\ Exists(files, path.val)
          THEN /\ files' = Create(files, path.val)
               /\ pc' = [pc EXCEPT ![p] = "rep_write"]
               /\ loc' = [loc EXCEPT ![p].path = path.val, ![p].file = path.val]
          ELSE /\ Raise(p, IF path.ok THEN "NotFound" ELSE path.err)
               /\ files' = files
  /\ UNCHANGED <<lock, call, snap>>

ReplaceOneCreate(p) ==
  /\ pc[p] = "rep_create"
  /\ LET path == ItemPath(call[p].id)
     IN IF path.ok
          THEN /\ files' = Create(files, path.val)
               /\ pc' = [pc EXCEPT ![p] = "rep_write"]
               /\ loc' = [loc EXCEPT ![p].path = path.val, ![p].file = path.val]
          ELSE Raise(p, path.err) /\ files' = files
  /\ UNCHANGED <<lock, call, snap>>

ReplaceOneWrite(p) ==
  /\ pc[p] = "rep_write"
  /\ LET bytes == Encode(call[p].data)
     IN IF bytes.ok
          THEN /\ files' = WriteBytes(files, loc[p].file, bytes.val)
               /\ pc' = [pc EXCEPT ![p] = "rep_unlock"]
               /\ loc' = loc
          ELSE Raise(p, bytes.err) /\ files' = files
  /\ UNCHANGED <<lock, call, snap>>

ReplaceOneUnlock(p) ==
  /\ pc[p] = "rep_unlock"
  /\ Unlock(p)
  /\ Return(p)
  /\ files' = files

\* ----------------------------------------------------------- update_by_id

\* update_by_id(id, u) is called and takes the exclusive lock.
UpdateById(p) ==
  /\ \E id \in IdPool, u \in Muts :
       Begin(p, [NoCall EXCEPT !.op = "upd", !.id = id, !.u = u], "upd_read")
  /\ LockExclusive(p)
  /\ UNCHANGED <<files, loc>>

\* A fault for C3: the payload read is written back as it was.
Mutated_Unapplied(u, id, val) == Item(id, val)

\* The item the mutator leaves: u(&mut item) on Item::new(id, val).
Mutated(u, id, val) == Apply(u, Item(id, val))

\* A fault for C4: the file is looked up again by the item's identifier.
WritePath_OfItem(path, item) == ItemPath(item.id).val

\* The file an update writes: File::create(&path), the path it read from,
\* whatever the mutator made of the item's identifier.
WritePath(path, item) == path

\* Open and decode the file, then run the mutator on the item.
UpdateByIdRead(p) ==
  /\ pc[p] = "upd_read"
  /\ LET path == ItemPath(call[p].id)
         val == IF path.ok THEN ReadFile(files, path.val) ELSE path
     IN IF val.ok
          THEN /\ pc' = [pc EXCEPT ![p] = "upd_create"]
               /\ loc' = [loc EXCEPT ![p].path = path.val,
                            ![p].item = Mutated(call[p].u, call[p].id, val.val)]
          ELSE Raise(p, val.err)
  /\ UNCHANGED <<files, lock, call, snap>>

UpdateByIdCreate(p) ==
  /\ pc[p] = "upd_create"
  /\ LET path == WritePath(loc[p].path, loc[p].item)
     IN /\ files' = Create(files, path)
        /\ loc' = [loc EXCEPT ![p].file = path]
  /\ pc' = [pc EXCEPT ![p] = "upd_write"]
  /\ UNCHANGED <<lock, call, snap>>

UpdateByIdWrite(p) ==
  /\ pc[p] = "upd_write"
  /\ LET bytes == Encode(loc[p].item.data)
     IN IF bytes.ok
          THEN /\ files' = WriteBytes(files, loc[p].file, bytes.val)
               /\ pc' = [pc EXCEPT ![p] = "upd_unlock"]
               /\ loc' = loc
          ELSE Raise(p, bytes.err) /\ files' = files
  /\ UNCHANGED <<lock, call, snap>>

UpdateByIdUnlock(p) ==
  /\ pc[p] = "upd_unlock"
  /\ Unlock(p)
  /\ Return(p)
  /\ files' = files

\* -------------------------------------------------- find_many and get_all

\* find_many(f) is called, takes the shared lock and opens the directory.
FindMany(p) ==
  /\ \E f \in Preds : Begin(p, [NoCall EXCEPT !.op = "find", !.f = f], "find_scan")
  /\ LockShared(p)
  /\ loc' = [loc EXCEPT ![p] = [NoLoc EXCEPT !.todo = DOMAIN files]]
  /\ files' = files

\* get_all() is find_many(|_| true).
GetAll(p) ==
  /\ Begin(p, [NoCall EXCEPT !.op = "all", !.f = "all"], "find_scan")
  /\ LockShared(p)
  /\ loc' = [loc EXCEPT ![p] = [NoLoc EXCEPT !.todo = DOMAIN files]]
  /\ files' = files

\* A fault for C10: every decoded item is pushed.
Push_Unfiltered(out, f, item) == Append(out, item)

\* if f(&item) { result.push(item) }
Push(out, f, item) == IF Holds(f, item) THEN Append(out, item) ELSE out

\* A fault for C11: the decode error of a payload goes out of the call.
FindManyItem_Strict(out, f, id, val) ==
  IF val.ok THEN Ok(Push(out, f, Item(id, val.val))) ELSE val

\* if let Ok(val) = serde_json::from_reader(reader) { .. }: the result after
\* an entry; a payload that does not decode leaves it as it is.
FindManyItem(out, f, id, val) ==
  IF val.ok THEN Ok(Push(out, f, Item(id, val.val))) ELSE Ok(out)

\* One turn of the loop over read_dir, whose order is any: the name parsed,
\* the file opened and decoded, the item pushed.
FindManyEntry(p) ==
  /\ pc[p] = "find_scan"
  /\ \E name \in loc[p].todo :
       LET id == FromStr(name)
       IN IF ~id.ok
            THEN Raise(p, id.err)
            ELSE IF ~Exists(files, name)
                   THEN Raise(p, "NotFound")
                   ELSE LET r == FindManyItem(loc[p].out, call[p].f, id.val,
                                              Decode(files[name]))
                        IN IF r.ok
                             THEN /\ pc' = pc
                                  /\ loc' = [loc EXCEPT ![p].todo = @ \ {name},
                                                        ![p].out = r.val]
                             ELSE Raise(p, r.err)
  /\ UNCHANGED <<files, lock, call, snap>>

FindManyUnlock(p) ==
  /\ pc[p] = "find_scan"
  /\ loc[p].todo = {}
  /\ Unlock(p)
  /\ Return(p)
  /\ files' = files

\* ------------------------------------------------------------ update_many

\* update_many(f, u) is called, takes the exclusive lock and opens the
\* directory.
UpdateMany(p) ==
  /\ \E f \in Preds, u \in Muts :
       Begin(p, [NoCall EXCEPT !.op = "um", !.f = f, !.u = u], "um_scan")
  /\ LockExclusive(p)
  /\ loc' = [loc EXCEPT ![p] = [NoLoc EXCEPT !.todo = DOMAIN files]]
  /\ files' = files

\* A fault for C13: every decoded entry is updated.
Updates_All(f, item) == TRUE

\* if f(&item) { .. }: update_many updates the entries the predicate holds of.
Updates(f, item) == Holds(f, item)

\* One turn of the loop over read_dir, up to the mutator: the name parsed,
\* the file opened and decoded, the predicate, the mutator.
UpdateManyEntry(p) ==
  /\ pc[p] = "um_scan"
  /\ \E name \in loc[p].todo :
       LET id == FromStr(name)
           val == IF id.ok THEN ReadFile(files, name) ELSE id
       IN IF ~val.ok
            THEN Raise(p, val.err)
            ELSE IF Updates(call[p].f, Item(id.val, val.val))
                   THEN /\ pc' = [pc EXCEPT ![p] = "um_create"]
                        /\ loc' = [loc EXCEPT
                             ![p].todo = @ \ {name},
                             ![p].id = id.val,
                             ![p].path = name,
                             ![p].item = Mutated(call[p].u, id.val, val.val)]
                   ELSE /\ pc' = pc
                        /\ loc' = [loc EXCEPT ![p].todo = @ \ {name}]
  /\ UNCHANGED <<files, lock, call, snap>>

UpdateManyCreate(p) ==
  /\ pc[p] = "um_create"
  /\ LET path == WritePath(loc[p].path, loc[p].item)
     IN /\ files' = Create(files, path)
        /\ loc' = [loc EXCEPT ![p].file = path]
  /\ pc' = [pc EXCEPT ![p] = "um_write"]
  /\ UNCHANGED <<lock, call, snap>>

UpdateManyWrite(p) ==
  /\ pc[p] = "um_write"
  /\ LET bytes == Encode(loc[p].item.data)
     IN IF bytes.ok
          THEN /\ files' = WriteBytes(files, loc[p].file, bytes.val)
               /\ pc' = [pc EXCEPT ![p] = "um_scan"]
               /\ loc' = loc
          ELSE Raise(p, bytes.err) /\ files' = files
  /\ UNCHANGED <<lock, call, snap>>

UpdateManyUnlock(p) ==
  /\ pc[p] = "um_scan"
  /\ loc[p].todo = {}
  /\ Unlock(p)
  /\ Return(p)
  /\ files' = files

\* ----------------------------------------------------------- error return

\* A fault for C15: the error return leaves the lock held.
Fail_LockKept(p) ==
  /\ pc[p] = "fail"
  /\ Return(p)
  /\ UNCHANGED <<files, lock, snap>>

\* The error goes to the caller; Drop releases the lock still marked held.
Fail(p) ==
  /\ pc[p] = "fail"
  /\ Unlock(p)
  /\ Return(p)
  /\ files' = files

\* ---------------------------------------------------------------- returns

\* Thread p is at the return of its operation with Ok.
Succeeds(p) ==
  \/ pc[p] \in {"get_unlock", "ins_unlock", "del_unlock", "rep_unlock", "upd_unlock"}
  \/ pc[p] \in {"find_scan", "um_scan"} /\ loc[p].todo = {}

\* Thread p is at the return of its operation with an error.
Fails(p) == pc[p] = "fail"

\* What the operation of thread p, at its return, gives its caller.
Result(p) ==
  CASE pc[p] = "fail" -> Err(loc[p].err)
    [] pc[p] = "get_unlock" -> Ok(loc[p].item)
    [] pc[p] = "ins_unlock" -> Ok(loc[p].id)
    [] pc[p] = "find_scan" -> Ok(loc[p].out)
    [] OTHER -> Ok(Unit)

\* ------------------------------------------------------------------- spec

Next ==
  \E p \in Procs :
    \/ GetOne(p) \/ GetOneRead(p) \/ GetOneUnlock(p)
    \/ FindMany(p) \/ GetAll(p) \/ FindManyEntry(p) \/ FindManyUnlock(p)
    \/ InsertOne(p) \/ GenId(p) \/ InsertOneCreate(p)
    \/ InsertOneWrite(p) \/ InsertOneUnlock(p)
    \/ DeleteOne(p) \/ DeleteOneRemove(p) \/ DeleteOneUnlock(p)
    \/ ReplaceOne(p) \/ ReplaceOneCreate(p)
    \/ ReplaceOneWrite(p) \/ ReplaceOneUnlock(p)
    \/ UpdateById(p) \/ UpdateByIdRead(p) \/ UpdateByIdCreate(p)
    \/ UpdateByIdWrite(p) \/ UpdateByIdUnlock(p)
    \/ UpdateMany(p) \/ UpdateManyEntry(p) \/ UpdateManyCreate(p)
    \/ UpdateManyWrite(p) \/ UpdateManyUnlock(p)
    \/ Fail(p)

Spec == Init /\ [][Next]_vars

\* ----------------------------------------------------------------- claims

ExclusiveOps == {"ins", "del", "rep", "upd", "um"}

SharedOps == {"get", "find", "all"}

\* C1: whatever the interleaving of the operations on the collection, at
\* most one operation holds the directory lock in exclusive mode, and while
\* one does no operation holds it in shared mode; a write operation holds it
\* in exclusive mode and a read operation in shared mode for as long as it
\* runs.
C1_MutualExclusion ==
  /\ \A p \in Procs : lock[p] = "exclusive" =>
       \A q \in Procs \ {p} : lock[q] = "none"
  /\ \A p \in Procs :
       /\ call[p].op \in ExclusiveOps <=> lock[p] = "exclusive"
       /\ call[p].op \in SharedOps <=> lock[p] = "shared"

\* A write is under way with the exclusive lock, and the calls of the other
\* thread, a read and a write, are blocked.
C1_Witness ==
  \E p \in Procs, q \in Procs :
    /\ p # q
    /\ lock[p] = "exclusive"
    /\ pc[p] = "upd_write"
    /\ pc[q] = "idle"
    /\ ~ENABLED GetOne(q)
    /\ ~ENABLED InsertOne(q)

\* C2: read after write.  When insert_one(P) is at its return with the
\* identifier id, get_one(id) on the directory it leaves gives the item of
\* identifier id and payload P; and what a get_one returns is what get_one
\* gives on the directory as it is at that return.
C2_ReadAfterWrite ==
  \A p \in Procs :
    /\ pc[p] = "ins_unlock" =>
         GetOneResult(files, Result(p).val) = Ok(Item(loc[p].id, call[p].data))
    /\ (call[p].op = "get" /\ (Succeeds(p) \/ Fails(p))) =>
         Result(p) = GetOneResult(files, call[p].id)

\* insert_one is at its return, its payload written beside a document that
\* was there before.
C2_Witness ==
  \E p \in Procs :
    /\ pc[p] = "ins_unlock"
    /\ call[p].data = MaxData
    /\ \E n \in IdPool : Exists(snap[p], n) /\ Decode(snap[p][n]).ok

\* C3: when update_by_id(id, f) on a document of payload P is at its return
\* with Ok, get_one(id) on the directory it leaves gives the item of
\* identifier id and payload f(P): the mutated payload is in the same file.
C3_UpdateWritesBack ==
  \A p \in Procs :
    pc[p] = "upd_unlock" =>
      /\ Exists(snap[p], call[p].id)
      /\ Decode(snap[p][call[p].id]).ok
      /\ GetOneResult(files, call[p].id) =
           Ok(Item(call[p].id,
                   Apply(call[p].u,
                         Item(call[p].id, Decode(snap[p][call[p].id]).val)).data))

\* update_by_id is at its return, having changed the payload.
C3_Witness ==
  \E p \in Procs :
    /\ pc[p] = "upd_unlock"
    /\ call[p].u = "inc"
    /\ files[call[p].id] # snap[p][call[p].id]

\* C4: update isolation.  From its call to its return, with Ok or with an
\* error, update_by_id(id, f) adds no file to the directory and removes
\* none, and every file but id holds the bytes it held at the call.
C4_UpdateIsolation ==
  \A p \in Procs :
    call[p].op = "upd" =>
      /\ DOMAIN files = DOMAIN snap[p]
      /\ \A n \in DOMAIN files \ {call[p].id} : files[n] = snap[p][n]

\* update_by_id returns an error with the document truncated (the mutated
\* payload does not encode), beside another document and a stray file.
C4_Witness ==
  \E p \in Procs :
    /\ call[p].op = "upd"
    /\ Fails(p)
    /\ loc[p].err = EncodeError
    /\ files[call[p].id] # snap[p][call[p].id]
    /\ \E n \in IdPool \ {call[p].id} : Exists(files, n) /\ Decode(files[n]).ok
    /\ Exists(files, StrayName)

\* The documents of directory fs that a read gives: the files whose name is
\* an identifier and whose bytes decode.
Documents(fs) ==
  {Item(n, Decode(fs[n]).val) : n \in {m \in DOMAIN fs : FromStr(m).ok /\ Decode(fs[m]).ok}}

\* The items of a result vector.
Items(out) == {out[i] : i \in 1..Len(out)}

\* C5: deletion.  When delete_one(id) is at its return with Ok, the
\* directory is the one of the call without the file id, so every other
\* document is still there, and get_one(id) on it fails with the not-found
\* IO error; and a get_all() at its return gives no item whose file is not in
\* the directory, and every document that is.
C5_Deletion ==
  \A p \in Procs :
    /\ pc[p] = "del_unlock" =>
         /\ Exists(snap[p], call[p].id)
         /\ files = [n \in DOMAIN snap[p] \ {call[p].id} |-> snap[p][n]]
         /\ GetOneResult(files, call[p].id) = Err("NotFound")
    /\ (call[p].op = "all" /\ Succeeds(p)) =>
         /\ \A it \in Items(Result(p).val) : Exists(files, it.id)
         /\ Items(Result(p).val) = Documents(files)

\* delete_one is at its return, a document deleted and another one left.
C5_Witness ==
  \E p \in Procs :
    /\ pc[p] = "del_unlock"
    /\ Decode(snap[p][call[p].id]).ok
    /\ Documents(files) # {}

\* C6: uniqueness.  The identifier insert_one creates its file at names no
\* file of the directory, at that moment and at the call; so the insert
\* overwrites no file that was there, and the identifier it returns differs
\* from those of all the documents inserted before and not deleted since.
C6_Uniqueness ==
  \A p \in Procs :
    /\ pc[p] = "ins_create" => ~Exists(files, loc[p].id)
    /\ pc[p] \in {"ins_create", "ins_write", "ins_unlock"} =>
         /\ ~Exists(snap[p], loc[p].id)
         /\ \A n \in DOMAIN snap[p] : Exists(files, n) /\ files[n] = snap[p][n]
    /\ call[p].op = "ins" => \A q \in Procs \ {p} : call[q].op # "ins"

\* insert_one is at its return with a new identifier, every other
\* identifier gen_id draws naming a document already.
C6_Witness ==
  \E p \in Procs :
    /\ pc[p] = "ins_unlock"
    /\ \A n \in IdPool \ {loc[p].id} : Exists(snap[p], n)
    /\ Exists(files, loc[p].id)

\* C7: update_many is all or nothing on a scan failure.  When update_many
\* is at its return with the error of a name that is no identifier or of a
\* payload that does not decode, every file of the directory holds the bytes
\* it held at the call.
C7_AllOrNothing ==
  \A p \in Procs :
    (call[p].op = "um" /\ Fails(p) /\ loc[p].err \in {"InvalidId", DecodeError}) =>
      files = snap[p]

\* Thread q has created or truncated a file and not written it yet.
Writing(q) == pc[q] \in {"ins_write", "rep_write", "upd_write", "um_write"}

\* C8: a read and a write on the collection are never interleaved.  While
\* a get_one, get_all or find_many runs, no write operation runs, no file is
\* created or truncated and not yet written, and the directory is the one of
\* the read's call: what the read sees of a document is what a whole write
\* left; and no two write operations run at once.
C8_NoTornRead ==
  \A p \in Procs :
    /\ call[p].op \in SharedOps =>
         /\ files = snap[p]
         /\ \A q \in Procs : ~Writing(q) /\ call[q].op \notin ExclusiveOps
    /\ call[p].op \in ExclusiveOps =>
         \A q \in Procs \ {p} : call[q].op \notin ExclusiveOps

\* get_one is at its return with a document, and the write the other thread
\* calls on it is blocked.
C8_Witness ==
  \E p \in Procs, q \in Procs :
    /\ p # q
    /\ pc[p] = "get_unlock"
    /\ pc[q] = "idle"
    /\ ~ENABLED UpdateById(q)
    /\ ~ENABLED ReplaceOne(q)

\* ------------------------------------------------ two updates of a document

\* The document the two updates are called on.
RaceId == PoolId(1)

\* A collection that holds the document, of any payload.
RaceInit ==
  /\ files \in {[n \in {RaceId} |-> Encode(d).val] : d \in Data}
  /\ lock = [p \in Procs |-> "none"]
  /\ pc = [p \in Procs |-> "idle"]
  /\ call = [p \in Procs |-> NoCall]
  /\ loc = [p \in Procs |-> NoLoc]
  /\ snap = [p \in Procs |-> NoFiles]

\* Each thread calls update_by_id on the document once, with any mutator.
RaceCall(p) ==
  /\ \E u \in Muts :
       Begin(p, [NoCall EXCEPT !.op = "upd", !.id = RaceId, !.u = u], "upd_read")
  /\ LockExclusive(p)
  /\ UNCHANGED <<files, loc>>

\* The call returns, by lock.unlock() and Ok or by the error and Drop; the
\* thread keeps what it called and goes on to nothing else.
RaceDone(p) ==
  /\ pc[p] \in {"upd_unlock", "fail"}
  /\ lock' = [lock EXCEPT ![p] = "none"]
  /\ pc' = [pc EXCEPT ![p] = IF pc[p] = "fail" THEN "done_err" ELSE "done_ok"]
  /\ UNCHANGED <<files, call, loc, snap>>

NextRace ==
  \E p \in Procs :
    \/ RaceCall(p) \/ UpdateByIdRead(p) \/ UpdateByIdCreate(p)
    \/ UpdateByIdWrite(p) \/ RaceDone(p)

SpecRace == RaceInit /\ [][NextRace]_vars

\* The payload mutator u leaves of payload d.
MutatedData(u, d) == Apply(u, Item(RaceId, d)).data

\* C9: no lost update.  When two update_by_id calls on a document have
\* both returned Ok, the document holds g(f(P)), where f is the mutator of
\* one call, g the mutator of the other and P the payload the document held
\* when the call of f took its lock: the updates are applied one after the
\* other, in one order or the other, and neither is lost.
C9_NoLostUpdate ==
  (\A p \in Procs : pc[p] = "done_ok") =>
    \E a \in Procs, b \in Procs :
      /\ a # b
      /\ Exists(snap[a], RaceId)
      /\ Decode(snap[a][RaceId]).ok
      /\ Exists(files, RaceId)
      /\ files[RaceId] =
           Encode(MutatedData(call[b].u,
                    MutatedData(call[a].u, Decode(snap[a][RaceId]).val))).val

\* Both calls have returned Ok, each with the mutator that changes the
\* payload.
C9_Witness ==
  /\ \A p \in Procs : pc[p] = "done_ok" /\ call[p].u = "inc"
  /\ \E p \in Procs : files[RaceId] # snap[p][RaceId]

\* C10: filter correctness.  At its return find_many(pred) gives, each
\* once, the documents of the directory that satisfy pred, whatever the order
\* read_dir gave them in; they are the items of a get_all() that returns on
\* the same directory that satisfy pred; and get_all() gives what
\* find_many gives with the predicate that always holds.
C10_FilterCorrectness ==
  \A p \in Procs :
    (call[p].op \in {"find", "all"} /\ Succeeds(p)) =>
      /\ Items(Result(p).val) = {it \in Documents(files) : Holds(call[p].f, it)}
      /\ Len(Result(p).val) = Cardinality(Items(Result(p).val))
      /\ \A q \in Procs \ {p} :
           /\ (call[q].op = "all" /\ Succeeds(q)) =>
                /\ Items(Result(p).val) =
                     {it \in Items(Result(q).val) : Holds(call[p].f, it)}
                /\ call[p].f = "all" => Items(Result(p).val) = Items(Result(q).val)
           /\ (call[q].op \in {"find", "all"}) => ~Fails(q)

\* find_many and get_all are at their returns on a directory of two
\* documents, one that satisfies the predicate and one that does not.
C10_Witness ==
  \E p \in Procs, q \in Procs :
    /\ call[p].op = "find" /\ call[p].f = "zero" /\ Succeeds(p)
    /\ call[q].op = "all" /\ Succeeds(q)
    /\ Len(Result(p).val) = 1
    /\ Len(Result(q).val) = 2


\* The entries of directory fs whose name is an identifier and whose bytes
\* do not decode.
Corrupt(fs) == {n \in DOMAIN fs : FromStr(n).ok /\ ~Decode(fs[n]).ok}

\* C11: read-path leniency.  In get_all and find_many an entry whose name
\* is an identifier and whose payload does not decode is skipped: the call
\* never fails with the decode error, and at its Ok return on a directory
\* that holds such entries its result has no item of theirs and is exactly
\* the decodable documents that satisfy the predicate.
C11_ReadLeniency ==
  \A p \in Procs :
    call[p].op \in {"find", "all"} =>
      /\ Fails(p) =>
           /\ loc[p].err = "InvalidId"
           /\ \E n \in DOMAIN files : ~FromStr(n).ok
      /\ (Succeeds(p) /\ Corrupt(files) # {}) =>
           /\ \A it \in Items(Result(p).val) : it.id \notin Corrupt(files)
           /\ Items(Result(p).val) =
                {Item(n, Decode(files[n]).val) :
                   n \in {m \in DOMAIN files \ Corrupt(files) :
                            Holds(call[p].f, Item(m, Decode(files[m]).val))}}

\* get_all is at its Ok return with the one valid document of a directory
\* that also holds an entry whose payload does not decode.
C11_Witness ==
  \E p \in Procs :
    /\ call[p].op = "all"
    /\ Succeeds(p)
    /\ Corrupt(files) # {}
    /\ Len(Result(p).val) = 1


\* The names of directory fs whose byte length is not that of an identifier.
BadNames(fs) == {n \in DOMAIN fs : Len(n) # ID_SIZE}

\* C12: when the directory holds an entry whose name has a byte length
\* other than 16, get_all and find_many never reach their Ok return: they
\* fail with InvalidId and give the error alone, whether the entry came
\* first from read_dir or after documents already pushed to the result; and
\* every file of the directory holds the bytes it held at the call.
C12_BadNameAborts ==
  \A p \in Procs :
    (call[p].op \in {"find", "all"} /\ BadNames(snap[p]) # {}) =>
      /\ ~Succeeds(p)
      /\ Fails(p) =>
           /\ Result(p) = Err("InvalidId")
           /\ loc[p].todo \cap BadNames(snap[p]) # {}
      /\ files = snap[p]

\* Two reads have failed on a directory of two documents and a stray file:
\* one met the stray name first, the other after it pushed both documents.
C12_Witness ==
  \E p \in Procs, q \in Procs :
    /\ call[p].op = "all" /\ Fails(p)
    /\ call[q].op = "find" /\ Fails(q)
    /\ Cardinality(Documents(files)) = 2
    /\ Len(loc[p].out) = 0 /\ Cardinality(loc[p].todo) = 3
    /\ Len(loc[q].out) = 2 /\ Cardinality(loc[q].todo) = 1


\* The bytes update_many(f, u) leaves in a file of bytes b named n: the
\* encoding of u's payload when f holds of the document, and b when not.
Updated(f, u, n, b) ==
  LET d == Item(n, Decode(b).val)
  IN IF Holds(f, d) THEN Encode(Apply(u, d).data).val ELSE b

\* C13: update_many(f, u) leaves alone every entry f is false of.  From the
\* call to the return, with Ok or with an error, an entry that is no
\* document or a document f is false of holds the bytes it held at the call,
\* so with the always-false predicate the directory is the one of the call;
\* and at the Ok return every document f is true of holds u of its payload.
C13_UpdateManyFrame ==
  \A p \in Procs :
    call[p].op = "um" =>
      /\ DOMAIN files = DOMAIN snap[p]
      /\ \A n \in DOMAIN snap[p] :
           (\/ ~FromStr(n).ok
            \/ ~Decode(snap[p][n]).ok
            \/ ~Holds(call[p].f, Item(n, Decode(snap[p][n]).val)))
             => files[n] = snap[p][n]
      /\ call[p].f = "none" => files = snap[p]
      /\ Succeeds(p) =>
           \A n \in DOMAIN snap[p] :
             files[n] = Updated(call[p].f, call[p].u, n, snap[p][n])

\* update_many is at its Ok return on two documents: the one the predicate
\* holds of is rewritten with another payload, the other one is as it was.
C13_Witness ==
  \E p \in Procs :
    /\ call[p].op = "um" /\ call[p].f = "zero" /\ call[p].u = "inc"
    /\ Succeeds(p)
    /\ \E n \in IdPool, m \in IdPool :
         /\ Exists(snap[p], n) /\ Exists(snap[p], m)
         /\ files[n] # snap[p][n]
         /\ files[m] = snap[p][m]
         /\ Decode(snap[p][m]).val # 0


\* The identifiers of the documents of directory fs.
Identifiers(fs) == {n \in DOMAIN fs : FromStr(n).ok}

\* C14: an update cannot change the identifier of a document.  Whatever
\* the mutator of update_by_id or update_many makes of the item's id field,
\* the file the update creates and writes is the one it read the payload
\* from, named by the identifier of the call or of the directory entry; so
\* the identifiers of the collection are, all through the update and at its
\* return, the ones of the call.
C14_IdentifierFixed ==
  \A p \in Procs :
    call[p].op \in {"upd", "um"} =>
      /\ Identifiers(files) = Identifiers(snap[p])
      /\ pc[p] \in {"upd_write", "upd_unlock"} =>
           loc[p].file = call[p].id /\ Exists(snap[p], loc[p].file)
      /\ pc[p] = "um_write" =>
           loc[p].file = loc[p].id /\ Exists(snap[p], loc[p].file)

\* update_many is at its Ok return, having rewritten a document whose item
\* its mutator gave the identifier of no document.
C14_Witness ==
  \E p \in Procs :
    /\ call[p].op = "um" /\ call[p].u = "rename" /\ call[p].f = "all"
    /\ Succeeds(p)
    /\ loc[p].item.id # loc[p].id
    /\ Exists(files, loc[p].id)
    /\ ~Exists(files, loc[p].item.id)


\* C15: the lock is released on every exit path.  A thread whose operation
\* has returned, by lock.unlock() and Ok or by an error raised under the lock
\* (a missing file, a name that is no identifier, a payload that does not
\* decode or encode) and Drop, holds no lock; so when no operation is running
\* the lock is free, and an operation called then, read or write, is granted
\* it at once.
C15_LockReleased ==
  /\ \A p \in Procs : pc[p] = "idle" => lock[p] = "none"
  /\ \A p \in Procs : (Succeeds(p) \/ Fails(p)) => lock[p] # "none"
  /\ (\A p \in Procs : pc[p] = "idle") =>
       \A p \in Procs : ENABLED InsertOne(p) /\ ENABLED GetOne(p)

\* Every operation has returned and no lock is held, after a write that
\* failed to encode left its file empty and returned its error.
C15_Witness ==
  /\ \A p \in Procs : pc[p] = "idle" /\ lock[p] = "none"
  /\ \E n \in IdPool : Exists(files, n) /\ files[n] = Empty
  /\ \A p \in Procs : ENABLED UpdateMany(p)


\* C16: update_by_id(id, u) on an identifier whose file is missing or whose
\* payload does not decode fails before any mutation.  Such a call goes no
\* further than its read: it returns the not-found error or the decode
\* error, the mutator has made no item, no file is created or truncated, and
\* the directory is, until the return, the one of the call.
C16_UpdateFailsFirst ==
  \A p \in Procs :
    (/\ call[p].op = "upd"
     /\ ~Exists(snap[p], call[p].id) \/ ~Decode(snap[p][call[p].id]).ok) =>
      /\ pc[p] \in {"upd_read", "fail"}
      /\ Fails(p) =>
           Result(p) = Err(IF Exists(snap[p], call[p].id)
                             THEN DecodeError ELSE "NotFound")
      /\ loc[p].item = NoLoc.item
      /\ loc[p].file = NoLoc.file
      /\ files = snap[p]

\* update_by_id returns the decode error on a document whose payload does
\* not decode, with the mutator that would change it, beside a valid
\* document.
C16_Witness ==
  \E p \in Procs :
    /\ call[p].op = "upd" /\ call[p].u = "inc"
    /\ Fails(p)
    /\ loc[p].err = DecodeError
    /\ Exists(files, call[p].id)
    /\ Documents(files) # {}


\* C17: replace_one(id, payload) does not fail on an identifier that names
\* no document.  Its only error is that of a payload that does not encode;
\* at its Ok return, on an identifier that named a document at the call or
\* named none, get_one(id) on the directory it leaves gives the item of id
\* and payload, the item is among the documents a get_all() reads there, and
\* every other file of the call is there with the bytes it held.
C17_ReplaceCreates ==
  \A p \in Procs :
    call[p].op = "rep" =>
      /\ Fails(p) => Result(p) = Err(EncodeError) /\ ~Encode(call[p].data).ok
      /\ pc[p] = "rep_unlock" =>
           /\ GetOneResult(files, call[p].id) = Ok(Item(call[p].id, call[p].data))
           /\ Item(call[p].id, call[p].data) \in Documents(files)
           /\ DOMAIN files = DOMAIN snap[p] \cup {call[p].id}
           /\ \A n \in DOMAIN snap[p] \ {call[p].id} : files[n] = snap[p][n]

\* replace_one is at its Ok return on an identifier that named no file at
\* the call, beside a document that was there.
C17_Witness ==
  \E p \in Procs :
    /\ pc[p] = "rep_unlock"
    /\ ~Exists(snap[p], call[p].id)
    /\ Documents(snap[p]) # {}
    /\ Cardinality(Documents(files)) = 2


\* C18: read operations do not exclude each other.  A get_one, get_all or
\* find_many a thread calls is granted the shared lock, and goes on, unless
\* another thread holds the lock in exclusive mode: it waits while an
\* exclusive-mode operation holds the lock and then only, whatever the
\* number of read operations that hold it in shared mode.
C18_SharedReaders ==
  \A p \in Procs :
    pc[p] = "idle" =>
      LET free == \A q \in Procs \ {p} : lock[q] # "exclusive"
      IN /\ ENABLED GetOne(p) <=> free
         /\ ENABLED GetAll(p) <=> free
         /\ ENABLED FindMany(p) <=> free

\* Two read operations hold the shared lock at once, each part of the way
\* through the directory.
C18_Witness ==
  \E p \in Procs, q \in Procs :
    /\ p # q
    /\ lock[p] = "shared" /\ lock[q] = "shared"
    /\ call[p].op = "find" /\ loc[p].todo # {} /\ Len(loc[p].out) = 1
    /\ call[q].op = "get" /\ pc[q] = "get_unlock"


\* ------------------------------------------------- insert_one under fairness

\* The turn of gen_id's loop that draws an identifier not in use.
GenIdFresh(p) == GenId(p) /\ pc'[p] = "ins_create"

\* Inserts, deletes and reads of the collection.
NextInsert ==
  \E p \in Procs :
    \/ InsertOne(p) \/ GenId(p) \/ InsertOneCreate(p)
    \/ InsertOneWrite(p) \/ InsertOneUnlock(p)
    \/ DeleteOne(p) \/ DeleteOneRemove(p) \/ DeleteOneUnlock(p)
    \/ GetOne(p) \/ GetOneRead(p) \/ GetOneUnlock(p)
    \/ Fail(p)

\* A thread inside insert_one runs on to its return, and the random draws
\* of gen_id are fair: an identifier that stays free is drawn in the end.
SpecInsert ==
  /\ Init
  /\ [][NextInsert]_vars
  /\ \A p \in Procs :
       /\ WF_vars(GenIdFresh(p))
       /\ WF_vars(InsertOneCreate(p))
       /\ WF_vars(InsertOneWrite(p))
       /\ WF_vars(InsertOneUnlock(p))
       /\ WF_vars(Fail(p))

\* C19: gen_id retries until its candidate's path does not exist.  A turn
\* of its loop is followed by another one only when the candidate it drew
\* names an existing file, and by the creation of the file only when it names
\* none; and, the draws being fair, an insert_one that generates its
\* identifier while an identifier of the space is unused returns in the end
\* and holds the lock no more, so the operations that wait for it go on.
C19_GenIdTerminates ==
  /\ [][\A p \in Procs :
          pc[p] = "ins_gen" =>
            /\ pc'[p] \in {"ins_gen", "ins_create"}
            /\ (pc'[p] = "ins_gen" /\ loc'[p] # loc[p]) => Exists(files, loc'[p].id)
            /\ pc'[p] = "ins_create" => ~Exists(files, loc'[p].id)]_vars
  /\ \A p \in Procs :
       (pc[p] = "ins_gen" /\ \E id \in IdPool : ~Exists(files, id))
         ~> (pc[p] = "idle" /\ lock[p] = "none")

\* gen_id has drawn a candidate that names an existing file and draws again,
\* an identifier being unused, while the read the other thread calls waits.
C19_Witness ==
  \E p \in Procs, q \in Procs :
    /\ p # q
    /\ pc[p] = "ins_gen"
    /\ loc[p].id # NoLoc.id
    /\ Exists(files, loc[p].id)
    /\ \E id \in IdPool : ~Exists(files, id)
    /\ pc[q] = "idle" /\ ~ENABLED GetOne(q)


\* ------------------------------------------------- the text of an identifier

\* The characters of the texts: '0', 'z' (not of chars), '"' (escaped in
\* JSON) and U+00E9 (two bytes in UTF-8).
Symbols == {48, 122, 34, 233}

\* The lengths of the texts, in characters.
TextLens == {ID_SIZE \div 2, ID_SIZE - 1, ID_SIZE, ID_SIZE + 1}

\* The text of n characters: c, then d again and again.
Text(c, d, n) == [k \in 1..n |-> IF k = 1 THEN c ELSE d]

Texts == {Text(c, d, n) : c \in Symbols, d \in Symbols, n \in TextLens}

\* The UTF-8 encoding of a code point below U+0800.
Utf8(c) == IF c < 128 THEN <<c>> ELSE <<192 + (c \div 64), 128 + (c % 64)>>

RECURSIVE AsBytes(_)
\* str::as_bytes: the UTF-8 encoding of the text.
AsBytes(s) == IF s = <<>> THEN <<>> ELSE Utf8(Head(s)) \o AsBytes(Tail(s))

RECURSIVE Escape(_)
\* serde_json's writing of the inside of a string: '"' and '\' take a '\'.
Escape(b) ==
  IF b = <<>>
    THEN <<>>
    ELSE (IF Head(b) \in {34, 92} THEN <<92, Head(b)>> ELSE <<Head(b)>>)
           \o Escape(Tail(b))

\* Serializer::serialize_str of serde_json: the string between quotes.
SerializeStr(b) == <<34>> \o Escape(b) \o <<34>>

RECURSIVE Unescape(_)
\* serde_json's reading of a string after its opening quote, up to the
\* closing quote, which must end the input.
Unescape(b) ==
  IF b = <<>>
    THEN Err(DecodeError)
    ELSE IF Head(b) = 34
      THEN (IF Tail(b) = <<>> THEN Ok(<<>>) ELSE Err(DecodeError))
      ELSE IF Head(b) = 92
        THEN IF Len(b) >= 2 /\ b[2] \in {34, 92}
               THEN LET r == Unescape(Tail(Tail(b)))
                    IN IF r.ok THEN Ok(<<b[2]>> \o r.val) ELSE r
               ELSE Err(DecodeError)
        ELSE LET r == Unescape(Tail(b))
             IN IF r.ok THEN Ok(<<Head(b)>> \o r.val) ELSE r

\* Deserializer::deserialize_str of serde_json: the string of the input.
DeserializeStr(b) ==
  IF b = <<>> \/ Head(b) # 34 THEN Err(DecodeError) ELSE Unescape(Tail(b))

\* impl Serialize for Id: the text of the identifier as a string.
Serialize(id) ==
  LET s == ToStr(id)
  IN IF s.ok THEN Ok(SerializeStr(s.val)) ELSE Err(EncodeError)

\* impl Deserialize for Id: IdVisitor::visit_str parses the string.
Deserialize(b) ==
  LET s == DeserializeStr(b)
      id == IF s.ok THEN FromStr(s.val) ELSE s
  IN IF id.ok THEN id ELSE Err(DecodeError)

\* The locals of a thread that takes an identifier through its conversions.
NoIdLoc == [id |-> <<>>, text |-> <<>>, json |-> <<>>, back |-> Err("none"), err |-> "none"]

IdInit ==
  /\ files = NoFiles
  /\ lock = [p \in Procs |-> "none"]
  /\ pc = [p \in Procs |-> "idle"]
  /\ call = [p \in Procs |-> NoCall]
  /\ loc = [p \in Procs |-> NoIdLoc]
  /\ snap = [p \in Procs |-> NoFiles]

\* A thread parses a text: Id::from_str(s), s.parse::<Id>().
IdFromStr(p) ==
  /\ pc[p] = "idle"
  /\ \E s \in Texts :
       LET id == FromStr(AsBytes(s))
       IN /\ call' = [call EXCEPT ![p] = [op |-> "from_str", s |-> s]]
          /\ pc' = [pc EXCEPT ![p] = IF id.ok THEN "id_parsed" ELSE "id_fail"]
          /\ loc' = [loc EXCEPT ![p] = IF id.ok
                       THEN [NoIdLoc EXCEPT !.id = id.val]
                       ELSE [NoIdLoc EXCEPT !.err = id.err]]
  /\ UNCHANGED <<files, lock, snap>>

\* It takes the text of the identifier: id.to_str().
IdToStr(p) ==
  /\ pc[p] = "id_parsed"
  /\ LET s == ToStr(loc[p].id)
     IN IF s.ok
          THEN /\ pc' = [pc EXCEPT ![p] = "id_text"]
               /\ loc' = [loc EXCEPT ![p].text = s.val]
          ELSE /\ pc' = [pc EXCEPT ![p] = "id_fail"]
               /\ loc' = [loc EXCEPT ![p].err = s.err]
  /\ UNCHANGED <<files, lock, call, snap>>

\* It serializes the identifier: serde_json::to_string(&id).
IdSerialize(p) ==
  /\ pc[p] = "id_text"
  /\ LET b == Serialize(loc[p].id)
     IN IF b.ok
          THEN /\ pc' = [pc EXCEPT ![p] = "id_json"]
               /\ loc' = [loc EXCEPT ![p].json = b.val]
          ELSE /\ pc' = [pc EXCEPT ![p] = "id_fail"]
               /\ loc' = [loc EXCEPT ![p].err = b.err]
  /\ UNCHANGED <<files, lock, call, snap>>

\* It deserializes what it serialized: serde_json::from_str(&json).
IdDeserialize(p) ==
  /\ pc[p] = "id_json"
  /\ pc' = [pc EXCEPT ![p] = "id_done"]
  /\ loc' = [loc EXCEPT ![p].back = Deserialize(loc[p].json)]
  /\ UNCHANGED <<files, lock, call, snap>>

\* It drops the identifier and goes on to another text.
IdReturn(p) ==
  /\ pc[p] \in {"id_done", "id_fail"}
  /\ pc' = [pc EXCEPT ![p] = "idle"]
  /\ call' = [call EXCEPT ![p] = NoCall]
  /\ loc' = [loc EXCEPT ![p] = NoIdLoc]
  /\ UNCHANGED <<files, lock, snap>>

NextId ==
  \E p \in Procs :
    \/ IdFromStr(p) \/ IdToStr(p) \/ IdSerialize(p)
    \/ IdDeserialize(p) \/ IdReturn(p)

SpecId == IdInit /\ [][NextId]_vars

=============================================================================
